---- MODULE Spec2Model ----
(***************************************************************************)
(* A model of the PICO manager (Source/PicoManager.c, Include/PicoManager.h)*)
(* as a state machine: the state is one PICO_MANAGER with its entries      *)
(* array and the regions VirtualAlloc has handed out; every public         *)
(* function of the library is one action.                                  *)
(***************************************************************************)
EXTENDS Integers, Sequences, FiniteSets, TLC

(***************************************************************************)
(* Bounds of the model.                                                    *)
(***************************************************************************)
\* entryCapacity handed to PicoManagerInit (the length of the entries array).
MaxEntries == 3
\* Number of distinct regions the address space can hold at one time.
MaxRegions == 4
\* Number of calls of the library in one run.
MaxCalls == 5

(***************************************************************************)
(* Program constants and input domains.                                    *)
(***************************************************************************)
PICO_NAME_MAX_LENGTH == 32

\* The "load all" value of upToEntryId: the -1 the caller passes, (DWORD)-1
\* inside LoadPico.
LOAD_ALL == -1

\* A pointer is a region number and a byte offset into it; region 0 is no
\* region, so NULL is the pointer into region 0.
NULL == [blk |-> 0, off |-> 0]

\* The vault buffers the caller owns; NullVault is a NULL char* vault.
NullVault == "NULL"
Vaults == {"vA", "vB", "vC"}

\* A C string is the sequence of its characters up to the terminating NUL.
\* NullName stands for a NULL char* name: no C string contains a NUL.
NullName == <<"\\0">>
NameA == <<"A">>
NameB == <<"B">>
\* A name no module is registered under; "A" is a proper prefix of it.
NameAB == <<"A", "B">>
NameC == <<"C">>

\* The (name, vault) pairs the caller registers.
Modules == {<<NameA, "vA">>, <<NameB, "vB">>, <<NameC, "vC">>}
\* The names the caller looks up.
LookupNames == {NameA, NameC, NameAB}

\* The values the caller gives interPicoPadding and finalPadding.
Paddings == {0, 16}
FinalPaddings == {0, 68}

\* The arguments the caller passes.
AddArgs == Modules \cup {<<NullName, "vA">>, <<NameA, NullVault>>}
RemoveNames == LookupNames \cup {NullName}
RemoveIds == 0..MaxEntries
LoadBounds == (0..(MaxEntries - 1)) \cup {LOAD_ALL}
\* The number of data sections the system grants during one LoadPico call.
Grants == 0..MaxEntries

Slots == 0..(MaxEntries - 1)
Regions == 1..MaxRegions

(***************************************************************************)
(* External collaborators: the PICO format reader and the C runtime.       *)
(***************************************************************************)
\* int PicoCodeSize(char * src)
PicoCodeSize(vault) ==
    CASE vault = "vA" -> 100
      [] vault = "vB" -> 200
      [] vault = "vC" -> 50

\* int PicoDataSize(char * src)
PicoDataSize(vault) ==
    CASE vault = "vA" -> 8
      [] vault = "vB" -> 24
      [] vault = "vC" -> 4

\* PICOMAIN_FUNC PicoEntryPoint(char * src, char * base): an address inside
\* the code the module was loaded to.
PicoEntryPoint(vault, base) ==
    [blk |-> base.blk, off |-> base.off + (PicoCodeSize(vault) \div 2)]

\* strlen
strlen(str) == Len(str)

\* The first n characters of a string (all of it when it is shorter).
Prefix(str, n) == SubSeq(str, 1, IF Len(str) < n THEN Len(str) ELSE n)

\* strncpy(dest, src, PICO_NAME_MAX_LENGTH - 1) followed by
\* dest[PICO_NAME_MAX_LENGTH - 1] = '\0': the C string left in dest.
CopyName(name) == Prefix(name, PICO_NAME_MAX_LENGTH - 1)

\* The character at index n of a stored name; the bytes after the string's
\* end read as NUL.
CharAt(str, n) == IF n < Len(str) THEN str[n + 1] ELSE "\\0"

\* strncmp(str1, str2, count) == 0: both strings agree on their first count
\* characters, the comparison ending at a NUL.
strncmpEq(str1, str2, count) == Prefix(str1, count) = Prefix(str2, count)

\* base + offset on char*
PtrAdd(base, offset) == [blk |-> base.blk, off |-> base.off + offset]

(***************************************************************************)
(* The memory primitive.  heap[r] is "free", "RWX" or "RW".                *)
(***************************************************************************)
FreeRegions(h) == {r \in Regions : h[r] = "free"}

Lowest(S) == CHOOSE r \in S : \A q \in S : r <= q

\* VirtualAlloc(NULL, size, MEM_COMMIT | MEM_RESERVE, protect): the base of a
\* region that was free, or NULL when the request is refused (grant is
\* FALSE), asks for zero bytes, or no region is free.
VirtualAlloc(h, size, protect, grant) ==
    IF grant /\ size > 0 /\ FreeRegions(h) # {}
    THEN LET r == Lowest(FreeRegions(h))
         IN  [heap |-> [h EXCEPT ![r] = protect],
              ptr  |-> [blk |-> r, off |-> 0]]
    ELSE [heap |-> h, ptr |-> NULL]

\* VirtualFree(address, 0, MEM_RELEASE)
VirtualFree(h, address) ==
    IF address.blk \in Regions
    THEN [h EXCEPT ![address.blk] = "free"]
    ELSE h

(***************************************************************************)
(* The state.                                                              *)
(***************************************************************************)
VARIABLES
    manager,   \* the PICO_MANAGER, its entries array included
    heap,      \* the regions VirtualAlloc handed out and not yet released
    call,      \* the last call of the library: its arguments and result
    regs,      \* successful registrations minus successful removals since
               \* the manager was initialised or last torn down
    calls,     \* the number of calls made so far
    newManager, \* the PICO_MANAGER the caller hands to DuplicateManager
    picoBlock  \* the caller's char* that DuplicateManager writes through

vars == <<manager, heap, call, regs, calls, newManager, picoBlock>>

\* One more call of the library, within the bound on a run's length.
Tick == calls < MaxCalls /\ calls' = calls + 1

\* memset(&entry, 0, sizeof(PICO_ENTRY))
ZeroEntry ==
    [id |-> 0, name |-> <<>>, code |-> NULL, codeSize |-> 0, data |-> NULL,
     dataSize |-> 0, entryPoint |-> NULL, vault |-> NullVault]

NoCall ==
    [op |-> "PicoManagerInit", ret |-> TRUE, name |-> NullName,
     vault |-> NullVault, id |-> 0, finalPadding |-> 0, refused |-> FALSE,
     placed |-> 0]

\* The record of a call: of a successful call its arguments, of a failed
\* one only that it failed; refused says whether the system refused a data
\* section during the call, placed how many entries the call gave a code
\* address.
Called(op, ret, name, vault, id, finalPadding, refused, placed) ==
    IF ret
    THEN [op |-> op, ret |-> ret, name |-> name, vault |-> vault, id |-> id,
          finalPadding |-> finalPadding, refused |-> refused, placed |-> placed]
    ELSE [op |-> op, ret |-> ret, name |-> NullName, vault |-> NullVault,
          id |-> 0, finalPadding |-> 0, refused |-> refused, placed |-> placed]

\* The number of entries that have a code address in m1 and had none in m.
NewlyPlaced(m, m1) ==
    Cardinality({i \in Slots : m.entries[i].code = NULL /\ m1.entries[i].code # NULL})

(***************************************************************************)
(* Initialization.                                                         *)
(***************************************************************************)
\* PicoManagerInit(manager, entries, entryCapacity) on a zeroed entries array
PicoManagerInit(entryCapacity) ==
    [baseAddress      |-> NULL,
     blockSize        |-> 0,
     usedSize         |-> 0,
     entries          |-> [i \in Slots |-> ZeroEntry],
     entryCount       |-> 0,
     entryCapacity    |-> entryCapacity,
     interPicoPadding |-> 0]

\* The manager after PicoManagerInit and the caller's assignment of the
\* interPicoPadding field, which no function of the library sets.
Init ==
    /\ \E padding \in Paddings :
          manager = [PicoManagerInit(MaxEntries) EXCEPT !.interPicoPadding = padding]
    /\ heap = [r \in Regions |-> "free"]
    /\ call = NoCall
    /\ regs = 0
    /\ calls = 0
    /\ newManager = PicoManagerInit(0)
    /\ picoBlock = NULL

(***************************************************************************)
(* Registration.                                                           *)
(***************************************************************************)
\* NewEntry with the code address set to the base of the block.
NewEntryAtBase(m, name, vault) ==
    [id         |-> m.entryCount,
     name       |-> CopyName(name),
     code       |-> m.baseAddress,
     codeSize   |-> PicoCodeSize(vault),
     data       |-> NULL,
     dataSize   |-> PicoDataSize(vault),
     entryPoint |-> NULL,
     vault      |-> vault]

\* The entry AddPico writes at position entryCount.
NewEntry(m, name, vault) ==
    [id         |-> m.entryCount,
     name       |-> CopyName(name),
     code       |-> NULL,
     codeSize   |-> PicoCodeSize(vault),
     data       |-> NULL,
     dataSize   |-> PicoDataSize(vault),
     entryPoint |-> NULL,
     vault      |-> vault]

\* BOOL AddPico(manager, name, vault)
AddPicoOp(m, name, vault) ==
    IF vault = NullVault \/ name = NullName
    THEN [manager |-> m, ret |-> FALSE]
    ELSE IF m.entryCount >= m.entryCapacity
    THEN [manager |-> m, ret |-> FALSE]
    ELSE [manager |-> [m EXCEPT !.entries[m.entryCount] = NewEntry(m, name, vault),
                                !.entryCount = m.entryCount + 1],
          ret |-> TRUE]

AddPico ==
    \E a \in AddArgs :
        \E r \in {AddPicoOp(manager, a[1], a[2])} :
            /\ manager' = r.manager
            /\ heap' = heap
            /\ call' = Called("AddPico", r.ret, a[1], a[2], 0, 0, FALSE, 0)
            /\ regs' = IF r.ret THEN regs + 1 ELSE regs
            /\ UNCHANGED <<newManager, picoBlock>>
            /\ Tick

(***************************************************************************)
(* Lookup.                                                                 *)
(***************************************************************************)
\* PPICO_ENTRY GetPicoById(manager, id): the position of the entry, or -1
\* for NULL.
GetPicoById(m, id) == IF id >= m.entryCount THEN -1 ELSE id

\* The test of GetPicoByName's loop on entries[i], nameLen being strlen(name)
\* cut down to PICO_NAME_MAX_LENGTH - 1.
NameMatches(entry, name) ==
    LET len     == strlen(name)
        nameLen == IF len >= PICO_NAME_MAX_LENGTH
                   THEN PICO_NAME_MAX_LENGTH - 1 ELSE len
    IN  /\ strncmpEq(entry.name, name, nameLen)
        /\ CharAt(entry.name, nameLen) = "\\0"

\* PPICO_ENTRY GetPicoByName(manager, name): the position of the first entry
\* the loop accepts, or -1 for NULL.
GetPicoByName(m, name) ==
    IF name = NullName THEN -1
    ELSE LET hits == {i \in Slots : i < m.entryCount /\ NameMatches(m.entries[i], name)}
         IN  IF hits = {} THEN -1 ELSE Lowest(hits)

(***************************************************************************)
(* Removal.                                                                *)
(***************************************************************************)
\* ShiftedEntry that copies the entry without its code address.
ShiftedEntryDropsCode(entries, i) == [entries[i + 1] EXCEPT !.id = i, !.code = NULL]

\* ShiftedEntry without the assignment of the new id.
ShiftedEntryKeepsId(entries, i) == entries[i + 1]

\* The body of the compaction loop: entries[i] = entries[i + 1], then
\* entries[i].id = i.
ShiftedEntry(entries, i) == [entries[i + 1] EXCEPT !.id = i]

\* Compacted by moving the last entry into the freed position.
CompactedByLast(m, id) ==
    [i \in Slots |->
        IF i = id /\ i < m.entryCount - 1
        THEN [m.entries[m.entryCount - 1] EXCEPT !.id = i]
        ELSE IF i = m.entryCount - 1 THEN ZeroEntry
        ELSE m.entries[i]]

\* Compacted with the loop starting one position too late.
CompactedFromNext(m, id) ==
    [i \in Slots |->
        IF i > id /\ i < m.entryCount - 1 THEN ShiftedEntry(m.entries, i)
        ELSE IF i = m.entryCount - 1 THEN ZeroEntry
        ELSE m.entries[i]]

\* The entries array after the compaction loop and the memset of the last
\* occupied slot.
Compacted(m, id) ==
    [i \in Slots |->
        IF i >= id /\ i < m.entryCount - 1 THEN ShiftedEntry(m.entries, i)
        ELSE IF i = m.entryCount - 1 THEN ZeroEntry
        ELSE m.entries[i]]

\* FreeData that also releases the region the entry's code lies in.
FreeDataAndCode(h, entry) ==
    IF entry.data # NULL
    THEN VirtualFree(VirtualFree(h, entry.data), entry.code) ELSE h

\* The release of the entry's data section, when it has one.
FreeData(h, entry) ==
    IF entry.data # NULL THEN VirtualFree(h, entry.data) ELSE h

\* BOOL RemovePicoById(manager, id)
RemovePicoByIdOp(m, h, id) ==
    IF id >= m.entryCount
    THEN [manager |-> m, heap |-> h, ret |-> FALSE]
    ELSE [manager |-> [m EXCEPT !.entries = Compacted(m, id),
                                !.entryCount = m.entryCount - 1],
          heap |-> FreeData(h, m.entries[id]),
          ret |-> TRUE]

\* BOOL RemovePicoByName(manager, name)
RemovePicoByNameOp(m, h, name) ==
    IF name = NullName
    THEN [manager |-> m, heap |-> h, ret |-> FALSE]
    ELSE LET entry == GetPicoByName(m, name)
         IN  IF entry = -1
             THEN [manager |-> m, heap |-> h, ret |-> FALSE]
             ELSE RemovePicoByIdOp(m, h, entry)

RemovePicoById ==
    \E id \in RemoveIds :
        \E r \in {RemovePicoByIdOp(manager, heap, id)} :
            /\ manager' = r.manager
            /\ heap' = r.heap
            /\ call' = Called("RemovePicoById", r.ret, NullName, NullVault, id, 0, FALSE, 0)
            /\ regs' = IF r.ret THEN regs - 1 ELSE regs
            /\ UNCHANGED <<newManager, picoBlock>>
            /\ Tick

RemovePicoByName ==
    \E name \in RemoveNames :
        \E r \in {RemovePicoByNameOp(manager, heap, name)} :
            /\ manager' = r.manager
            /\ heap' = r.heap
            /\ call' = Called("RemovePicoByName", r.ret, name, NullVault, 0, 0, FALSE, 0)
            /\ regs' = IF r.ret THEN regs - 1 ELSE regs
            /\ UNCHANGED <<newManager, picoBlock>>
            /\ Tick

(***************************************************************************)
(* Allocation and loading.                                                 *)
(***************************************************************************)
\* The loop of TotalCodeSize from position i on, totalSize so far.
RECURSIVE TotalCodeSizeFrom(_, _, _)
TotalCodeSizeFrom(m, i, totalSize) ==
    IF ~(i < m.entryCount) THEN totalSize
    ELSE LET entry == m.entries[i]
         IN  IF entry.vault = NullVault
             THEN TotalCodeSizeFrom(m, i + 1, totalSize)
             ELSE TotalCodeSizeFrom(m, i + 1,
                      totalSize + entry.codeSize
                        + (IF i < m.entryCount - 1 THEN m.interPicoPadding ELSE 0))

\* SIZE_T TotalCodeSize(manager)
TotalCodeSize(m) == TotalCodeSizeFrom(m, 0, 0)

\* RequiredBlockSize without the paddingSize term.
RequiredBlockSizeNoPadding(m, finalPadding) == TotalCodeSize(m) + finalPadding

\* requiredBlockSize of PicoManagerAlloc
RequiredBlockSize(m, finalPadding) ==
    LET totalCodeSize == TotalCodeSize(m)
        paddingSize   == IF m.entryCount > 0
                         THEN m.interPicoPadding * (m.entryCount - 1) ELSE 0
    IN  totalCodeSize + paddingSize + finalPadding

\* BOOL PicoManagerAlloc(manager, finalPadding); grant says whether the
\* system grants the request.
PicoManagerAllocOp(m, h, finalPadding, grant) ==
    LET requiredBlockSize == RequiredBlockSize(m, finalPadding)
        a  == VirtualAlloc(h, requiredBlockSize, "RWX", grant)
        m1 == [m EXCEPT !.baseAddress = a.ptr]
    IN  IF m1.baseAddress = NULL
        THEN [manager |-> m1, heap |-> a.heap, ret |-> FALSE]
        ELSE [manager |-> [m1 EXCEPT !.blockSize = requiredBlockSize,
                                     !.usedSize = 0],
              heap |-> a.heap, ret |-> TRUE]

\* loadUpTo of LoadPico; upToEntryId + 1 wraps around in DWORD arithmetic
\* only for (DWORD)-1, which the test takes out first.
LoadUpTo(m, upToEntryId) ==
    IF upToEntryId = LOAD_ALL THEN m.entryCount ELSE upToEntryId + 1

\* IsLoaded that takes no entry for loaded.
NeverLoaded(entry) == FALSE

\* if (entry->code): the entry counts as already loaded
IsLoaded(entry) == entry.code # NULL

\* SkipLoaded that leaves the offset where it is.
SkipLoadedNoAdvance(m, entry, codeOffset) == codeOffset

\* The offset after an already loaded entry.
SkipLoaded(m, entry, codeOffset) ==
    codeOffset + entry.codeSize + m.interPicoPadding

\* HasSpace that asks for room for the code only.
HasSpaceForCode(m, entry, codeOffset, finalPadding) ==
    ~(codeOffset + entry.codeSize > m.blockSize)

\* The space check made before an entry is placed.
HasSpace(m, entry, codeOffset, finalPadding) ==
    LET requiredSize == entry.codeSize + m.interPicoPadding
    IN  ~(codeOffset + requiredSize + finalPadding > m.blockSize)

\* entry->code = manager->baseAddress + codeOffset
PlaceCode(m, i, codeOffset) ==
    [m EXCEPT !.entries[i].code = PtrAdd(m.baseAddress, codeOffset)]

\* The rest of a placement once the data section is allocated: the data
\* pointer, PicoLoad (which writes only into the two regions) and the entry
\* point.
FinishLoad(m, i, data) ==
    [m EXCEPT !.entries[i].data = data,
              !.entries[i].entryPoint =
                  PicoEntryPoint(m.entries[i].vault, m.entries[i].code)]

\* Advance without the padding after the entry.
AdvanceNoPadding(m, entry, codeOffset) == codeOffset + entry.codeSize

\* The offset after a freshly placed entry.
Advance(m, entry, codeOffset) ==
    codeOffset + entry.codeSize + m.interPicoPadding

\* LoadFailed with the offset reached stored in usedSize.
LoadFailedStoresOffset(m, h, codeOffset, refused) ==
    [manager |-> [m EXCEPT !.usedSize = codeOffset], heap |-> h,
     ret |-> FALSE, refused |-> refused]

\* return FALSE inside the loop
LoadFailed(m, h, codeOffset, refused) ==
    [manager |-> m, heap |-> h, ret |-> FALSE, refused |-> refused]

\* LoadDone with the padding after the last entry taken off again.
LoadDoneTrimsPadding(m, h, codeOffset) ==
    [manager |-> [m EXCEPT !.usedSize =
                     IF codeOffset > 0 THEN codeOffset - m.interPicoPadding ELSE 0],
     heap |-> h, ret |-> TRUE, refused |-> FALSE]

\* The end of LoadPico: manager->usedSize = codeOffset; return TRUE
LoadDone(m, h, codeOffset) ==
    [manager |-> [m EXCEPT !.usedSize = codeOffset], heap |-> h,
     ret |-> TRUE, refused |-> FALSE]

\* The loop of LoadPico from position i on; grants is the number of data
\* sections the system still grants during this call.
RECURSIVE LoadLoop(_, _, _, _, _, _, _)
LoadLoop(m, h, i, codeOffset, loadUpTo, finalPadding, grants) ==
    IF ~(i < loadUpTo /\ i < m.entryCount) THEN LoadDone(m, h, codeOffset)
    ELSE LET entry == m.entries[i]
         IN  IF IsLoaded(entry)
             THEN LoadLoop(m, h, i + 1, SkipLoaded(m, entry, codeOffset),
                           loadUpTo, finalPadding, grants)
             ELSE IF entry.vault = NullVault
             THEN LoadLoop(m, h, i + 1, codeOffset, loadUpTo, finalPadding, grants)
             ELSE IF ~HasSpace(m, entry, codeOffset, finalPadding)
             THEN LoadFailed(m, h, codeOffset, FALSE)
             ELSE LET m1 == PlaceCode(m, i, codeOffset)
                      a  == VirtualAlloc(h, entry.dataSize, "RW", grants > 0)
                  IN  IF a.ptr = NULL
                      THEN LoadFailed(m1, a.heap, codeOffset, TRUE)
                      ELSE LoadLoop(FinishLoad(m1, i, a.ptr), a.heap, i + 1,
                                    Advance(m1, entry, codeOffset),
                                    loadUpTo, finalPadding, grants - 1)

\* LoadPicoOp without the test of baseAddress and blockSize.
LoadPicoOpUnguarded(m, h, upToEntryId, finalPadding, grants) ==
    LoadLoop(m, h, 0, 0, LoadUpTo(m, upToEntryId), finalPadding, grants)

\* BOOL LoadPico(manager, upToEntryId, finalPadding, funcs)
LoadPicoOp(m, h, upToEntryId, finalPadding, grants) ==
    IF m.baseAddress = NULL \/ m.blockSize = 0
    THEN LoadFailed(m, h, 0, FALSE)
    ELSE LoadLoop(m, h, 0, 0, LoadUpTo(m, upToEntryId), finalPadding, grants)

PicoManagerAlloc ==
    \E finalPadding \in FinalPaddings, grant \in BOOLEAN :
        \E r \in {PicoManagerAllocOp(manager, heap, finalPadding, grant)} :
            /\ manager' = r.manager
            /\ heap' = r.heap
            /\ call' = Called("PicoManagerAlloc", r.ret, NullName, NullVault, 0,
                              finalPadding, FALSE, 0)
            /\ regs' = regs
            /\ UNCHANGED <<newManager, picoBlock>>
            /\ Tick

LoadPico ==
    \E upToEntryId \in LoadBounds, finalPadding \in FinalPaddings,
       grants \in Grants :
        \E r \in {LoadPicoOp(manager, heap, upToEntryId, finalPadding, grants)} :
            /\ manager' = r.manager
            /\ heap' = r.heap
            /\ call' = Called("LoadPico", r.ret, NullName, NullVault, upToEntryId,
                              finalPadding, r.refused,
                              NewlyPlaced(manager, r.manager))
            /\ regs' = regs
            /\ UNCHANGED <<newManager, picoBlock>>
            /\ Tick

(***************************************************************************)
(* Duplication and teardown.                                               *)
(***************************************************************************)
\* The capacities of the new entries array: none, one, that of the source.
Capacities == {0, 1, MaxEntries}

\* DuplicateManager that asks for no final padding.
DuplicatePaddingNone(m) == 0

\* The finalPadding DuplicateManager passes to PicoManagerAlloc.
DuplicatePadding(m) == m.entryCount * m.interPicoPadding

\* The loop of DuplicateManager from position i on: AddPico on newManager
\* of every entry of manager that has a vault, up to the first failure.
\* CopyEntries by a copy of the whole entries array, placements included.
CopyEntriesWhole(m, nm, i) ==
    IF m.entryCount > nm.entryCapacity THEN [manager |-> nm, ret |-> FALSE]
    ELSE [manager |-> [nm EXCEPT !.entries = m.entries,
                                 !.entryCount = m.entryCount],
          ret |-> TRUE]

RECURSIVE CopyEntries(_, _, _)
CopyEntries(m, nm, i) ==
    IF ~(i < m.entryCount) THEN [manager |-> nm, ret |-> TRUE]
    ELSE IF m.entries[i].vault = NullVault THEN CopyEntries(m, nm, i + 1)
    ELSE LET a == AddPicoOp(nm, m.entries[i].name, m.entries[i].vault)
         IN  IF ~a.ret THEN [manager |-> nm, ret |-> FALSE]
             ELSE CopyEntries(m, a.manager, i + 1)

\* BOOL DuplicateManager(manager, newManager, entries, entryCapacity,
\* picoBlock) with entries a zeroed array; grant says whether the system
\* grants the block.
DuplicateManagerOp(m, h, entryCapacity, grant) ==
    LET init   == [PicoManagerInit(entryCapacity)
                     EXCEPT !.interPicoPadding = m.interPicoPadding]
        copied == CopyEntries(m, init, 0)
    IN  IF ~copied.ret
        THEN [newManager |-> copied.manager, heap |-> h, ret |-> FALSE]
        ELSE LET a == PicoManagerAllocOp(copied.manager, h, DuplicatePadding(m), grant)
             IN  [newManager |-> a.manager, heap |-> a.heap, ret |-> a.ret]

DuplicateManager ==
    \E entryCapacity \in Capacities, grant \in BOOLEAN :
        \E d \in {DuplicateManagerOp(manager, heap, entryCapacity, grant)} :
            /\ newManager' = d.newManager
            /\ picoBlock' = IF d.ret THEN d.newManager.baseAddress ELSE picoBlock
            /\ heap' = d.heap
            /\ manager' = manager
            /\ call' = Called("DuplicateManager", d.ret, NullName, NullVault,
                              entryCapacity, 0, FALSE, 0)
            /\ regs' = regs
            /\ Tick

\* ClearManager that leaves entryCount as it is.
ClearManagerKeepsCount(m) ==
    [m EXCEPT !.baseAddress = NULL, !.blockSize = 0, !.usedSize = 0]

\* The four assignments of DestroyManager.
ClearManager(m) ==
    [m EXCEPT !.baseAddress = NULL, !.blockSize = 0, !.usedSize = 0,
              !.entryCount = 0]

\* BOOL DestroyManager(manager, picoBlock)
DestroyManagerOp(m, h, block) ==
    [manager |-> ClearManager(m),
     heap    |-> IF block # NULL THEN VirtualFree(h, block) ELSE h,
     ret     |-> TRUE]

\* The caller passes the block of the manager, or NULL.
DestroyManager ==
    \E block \in {NULL, manager.baseAddress} :
        \E r \in {DestroyManagerOp(manager, heap, block)} :
            /\ manager' = r.manager
            /\ heap' = r.heap
            /\ call' = Called("DestroyManager", r.ret, NullName, NullVault, 0, 0,
                              FALSE, 0)
            /\ regs' = 0
            /\ UNCHANGED <<newManager, picoBlock>>
            /\ Tick

Next ==
    \/ AddPico
    \/ RemovePicoById
    \/ RemovePicoByName
    \/ PicoManagerAlloc
    \/ LoadPico

Spec == Init /\ [][Next]_vars

\* The library with duplication and teardown.
LifecycleNext ==
    \/ AddPico
    \/ RemovePicoById
    \/ RemovePicoByName
    \/ PicoManagerAlloc
    \/ LoadPico
    \/ DuplicateManager
    \/ DestroyManager

LifecycleSpec == Init /\ [][LifecycleNext]_vars

(***************************************************************************)
(* Properties.  A contract of a function is stated on the function's       *)
(* result in every reachable state and for every argument the caller may   *)
(* pass there: these are the calls the actions above make.                 *)
(***************************************************************************)
Occupied(m) == {i \in Slots : i < m.entryCount}

Placed(m) == {i \in Occupied(m) : m.entries[i].code # NULL}

\* C1: entryCount never exceeds entryCapacity, entryCount is the number of
\* successful registrations minus the number of successful removals, and
\* every occupied position i holds the entry with id i.
C1_CountAndIds ==
    /\ manager.entryCount <= manager.entryCapacity
    /\ manager.entryCount = regs
    /\ \A i \in Occupied(manager) : manager.entries[i].id = i

\* A removal from the front of a catalog of three left two entries.
C1_Witness ==
    /\ call.op = "RemovePicoById" /\ call.ret /\ call.id = 0
    /\ manager.entryCount = 2
    /\ regs = 2

\* The catalog r.manager is the catalog of m without the entry at position
\* k: the entries before k as they were, the entries after k one position
\* lower with the id of the new position and otherwise as they were; the
\* heap is h with the data section of the removed entry released.
RemovedAt(m, h, r, k) ==
    /\ r.ret
    /\ r.manager.entryCount = m.entryCount - 1
    /\ \A j \in Occupied(m) :
          /\ j < k => r.manager.entries[j] = m.entries[j]
          /\ j > k => /\ r.manager.entries[j - 1].id = j - 1
                      /\ [r.manager.entries[j - 1] EXCEPT !.id = j] = m.entries[j]
    /\ \A q \in Regions :
          r.heap[q] = IF m.entries[k].data # NULL /\ q = m.entries[k].data.blk
                      THEN "free" ELSE h[q]

NoChange(m, h, r) == ~r.ret /\ r.manager = m /\ r.heap = h

\* The positions whose stored name is the given name.
Named(m, name) == {i \in Occupied(m) : m.entries[i].name = name}

\* C2: RemovePicoById(k) with k < entryCount succeeds and leaves the catalog
\* without position k, the later entries shifted down by one with their ids
\* renumbered and nothing else of them changed, the removed entry's data
\* section released; RemovePicoByName does this at the lowest position of
\* the name; both fail and change nothing for an id >= entryCount, a name
\* that no entry has, or a NULL name.
C2_RemoveContract ==
    /\ \A id \in RemoveIds :
          LET r == RemovePicoByIdOp(manager, heap, id)
          IN  IF id < manager.entryCount
              THEN RemovedAt(manager, heap, r, id)
              ELSE NoChange(manager, heap, r)
    /\ \A name \in RemoveNames :
          LET r == RemovePicoByNameOp(manager, heap, name)
          IN  IF name # NullName /\ Named(manager, name) # {}
              THEN \E k \in Named(manager, name) :
                      /\ \A j \in Named(manager, name) : k <= j
                      /\ RemovedAt(manager, heap, r, k)
              ELSE NoChange(manager, heap, r)

\* A removal by name took a loaded entry out from in front of another loaded
\* entry, which now sits at position 0 with its code where it was.
C2_Witness ==
    /\ call.op = "RemovePicoByName" /\ call.ret
    /\ manager.entryCount >= 1
    /\ manager.entries[0].id = 0
    /\ manager.entries[0].code # NULL
    /\ manager.entries[0].code.off > 0
    /\ \E q \in Regions : heap[q] = "free" /\ q < manager.entries[0].data.blk

\* The sum of codeSize + interPicoPadding over the entries before position i.
RECURSIVE SumBefore(_, _)
SumBefore(m, i) ==
    IF i = 0 THEN 0
    ELSE SumBefore(m, i - 1) + m.entries[i - 1].codeSize + m.interPicoPadding

\* The address offset bytes into the manager's block.
InBlock(m, offset) == [blk |-> m.baseAddress.blk, off |-> offset]

\* The state right after PicoManagerAlloc(finalPadding) succeeded on a
\* catalog of at least one entry, none of them placed.
FreshlySized(finalPadding) ==
    /\ call.op = "PicoManagerAlloc" /\ call.ret
    /\ call.finalPadding = finalPadding
    /\ manager.entryCount >= 1
    /\ Placed(manager) = {}
    /\ manager.blockSize =
          TotalCodeSize(manager)
            + manager.interPicoPadding * (manager.entryCount - 1) + finalPadding

\* C3: on a region PicoManagerAlloc(finalPadding) has just sized for a
\* catalog of n >= 1 unplaced entries, LoadPico with boundary ALL and the
\* same finalPadding succeeds and places all n entries, unless the system
\* refuses a data section.
C3_SizedRegionLoadsAll ==
    \A finalPadding \in FinalPaddings :
        FreshlySized(finalPadding) =>
            LET r == LoadPicoOp(manager, heap, LOAD_ALL, finalPadding, MaxEntries)
            IN  ~r.refused =>
                    r.ret /\ Placed(r.manager) = Occupied(manager)

\* LoadPico with boundary ALL has just succeeded and every entry of the
\* catalog got its code address in this call: no entry was placed before it.
LoadedAllAtOnce ==
    /\ call.op = "LoadPico" /\ call.ret /\ call.id = LOAD_ALL
    /\ call.placed = manager.entryCount

\* C4: after a successful LoadPico with boundary ALL on a catalog with no
\* entry placed, the entry at position i is at the offset that is the sum
\* of codeSize + interPicoPadding over the positions before i.
C4_OneShotOffsets ==
    LoadedAllAtOnce =>
        \A i \in Occupied(manager) :
            manager.entries[i].code = InBlock(manager, SumBefore(manager, i))

\* The catalog is A (100), B (200), C (50), the padding 16, the region 400
\* bytes.
ExampleCatalog ==
    /\ manager.entryCount = 3
    /\ manager.interPicoPadding = 16
    /\ manager.blockSize = 400
    /\ manager.entries[0].name = NameA /\ manager.entries[0].codeSize = 100
    /\ manager.entries[1].name = NameB /\ manager.entries[1].codeSize = 200
    /\ manager.entries[2].name = NameC /\ manager.entries[2].codeSize = 50

\* One LoadPico with boundary ALL placed the three entries of the example
\* at offsets 0, 116 and 332.
C4_Witness ==
    /\ ExampleCatalog
    /\ call.op = "LoadPico" /\ call.ret /\ call.id = LOAD_ALL /\ call.placed = 3
    /\ manager.entries[0].code = InBlock(manager, 0)
    /\ manager.entries[1].code = InBlock(manager, 116)
    /\ manager.entries[2].code = InBlock(manager, 332)

\* C5 as claimed: after a successful LoadPico with boundary ALL on a catalog
\* with no entry placed, usedSize is TotalCodeSize of the catalog (382 in
\* the example).
C5_UsedSizeIsTotalCodeSize ==
    LoadedAllAtOnce => manager.usedSize = TotalCodeSize(manager)

\* C5 as amended: after a successful LoadPico with boundary ALL on a catalog
\* with no entry placed, usedSize is the sum of codeSize + interPicoPadding
\* over all entries: for a catalog that is not empty, TotalCodeSize plus the
\* padding after the last entry (398 in the example).
C5_UsedSizeCountsLastPadding ==
    LoadedAllAtOnce =>
        /\ manager.usedSize = SumBefore(manager, manager.entryCount)
        /\ manager.entryCount >= 1 =>
              manager.usedSize = TotalCodeSize(manager) + manager.interPicoPadding
        /\ ExampleCatalog => manager.usedSize = 398

\* One LoadPico with boundary ALL placed the three entries of the example
\* and left usedSize at 398.
C5_Witness ==
    /\ ExampleCatalog
    /\ call.op = "LoadPico" /\ call.ret /\ call.id = LOAD_ALL /\ call.placed = 3
    /\ TotalCodeSize(manager) = 382
    /\ manager.usedSize = 398

\* The unplaced entries within the boundary upToEntryId that the space check
\* turns down, the offset of position i being the sum of codeSize +
\* interPicoPadding over the positions before it.
TooLarge(m, upToEntryId, finalPadding) ==
    {i \in Occupied(m) :
        /\ i < LoadUpTo(m, upToEntryId)
        /\ m.entries[i].code = NULL
        /\ SumBefore(m, i) + m.entries[i].codeSize + m.interPicoPadding
              + finalPadding > m.blockSize}

\* C6: when LoadPico, on an allocated region and with no data section
\* refused, comes to an unplaced entry that the space check turns down, it
\* returns failure, usedSize keeps its value, the entries before that entry
\* are placed (those the call placed stay placed), and that entry and all
\* later ones are unplaced and unchanged.
C6_SpaceFailure ==
    \A upToEntryId \in LoadBounds, finalPadding \in FinalPaddings, grants \in Grants :
        LET r     == LoadPicoOp(manager, heap, upToEntryId, finalPadding, grants)
            short == TooLarge(manager, upToEntryId, finalPadding)
        IN  (/\ manager.baseAddress # NULL /\ manager.blockSize # 0
             /\ short # {} /\ ~r.refused) =>
                /\ ~r.ret
                /\ r.manager.usedSize = manager.usedSize
                /\ \A j \in Occupied(manager) :
                      IF j < Lowest(short)
                      THEN /\ r.manager.entries[j].code # NULL
                           /\ manager.entries[j].code = NULL =>
                                 /\ r.manager.entries[j].code
                                       = InBlock(manager, SumBefore(manager, j))
                                 /\ r.manager.entries[j].data # NULL
                      ELSE /\ r.manager.entries[j] = manager.entries[j]
                           /\ r.manager.entries[j].code = NULL

\* A LoadPico call placed an entry and then failed for lack of space at a
\* later entry; usedSize is still the 0 that PicoManagerAlloc set.
C6_Witness ==
    /\ call.op = "LoadPico" /\ ~call.ret /\ ~call.refused
    /\ call.placed >= 1
    /\ manager.baseAddress # NULL /\ manager.blockSize > 0
    /\ manager.usedSize = 0
    /\ Placed(manager) # {} /\ Placed(manager) # Occupied(manager)

\* C7: LoadPico called again with the boundary and finalPadding of the
\* successful call just made returns success and changes neither an entry
\* nor usedSize nor the set of allocated regions, whatever the system would
\* grant.
C7_SecondLoadChangesNothing ==
    (call.op = "LoadPico" /\ call.ret) =>
        \A grants \in Grants :
            LET r == LoadPicoOp(manager, heap, call.id, call.finalPadding, grants)
            IN  r.ret /\ r.manager = manager /\ r.heap = heap

\* A successful LoadPico with a boundary short of the last entry placed
\* entries and left a later entry unplaced.
C7_Witness ==
    /\ call.op = "LoadPico" /\ call.ret /\ call.id # LOAD_ALL
    /\ call.placed >= 1
    /\ Placed(manager) # Occupied(manager)
    /\ manager.usedSize > 0

\* C8: every catalog entry whose code is set has its data section and its
\* entryPoint set.
C8_CodeOnlyWhenLoaded ==
    \A i \in Placed(manager) :
        /\ manager.entries[i].data # NULL
        /\ manager.entries[i].entryPoint # NULL

\* The position of the entry at position i after a removal at position k.
After(i, k) == IF k < i THEN i - 1 ELSE i

\* C9: an entry whose code is set keeps that code address through every
\* AddPico, every LoadPico, every PicoManagerAlloc and every removal of
\* another entry, at the position the removal leaves it at.
C9_CodeKept ==
    \A i \in Placed(manager) :
        LET code == manager.entries[i].code
        IN  /\ \A a \in AddArgs :
                  AddPicoOp(manager, a[1], a[2]).manager.entries[i].code = code
            /\ \A upToEntryId \in LoadBounds, finalPadding \in FinalPaddings,
                  grants \in Grants :
                  LoadPicoOp(manager, heap, upToEntryId, finalPadding, grants)
                      .manager.entries[i].code = code
            /\ \A finalPadding \in FinalPaddings, grant \in BOOLEAN :
                  PicoManagerAllocOp(manager, heap, finalPadding, grant)
                      .manager.entries[i].code = code
            /\ \A id \in RemoveIds \ {i} :
                  LET r == RemovePicoByIdOp(manager, heap, id)
                  IN  /\ After(i, id) < r.manager.entryCount
                      /\ r.manager.entries[After(i, id)].code = code
            /\ \A name \in RemoveNames :
                  LET r == RemovePicoByNameOp(manager, heap, name)
                      k == IF Named(manager, name) = {} THEN MaxEntries
                           ELSE Lowest(Named(manager, name))
                  IN  k # i =>
                        /\ After(i, k) < r.manager.entryCount
                        /\ r.manager.entries[After(i, k)].code = code

\* A removal moved a loaded entry to position 0; its code is still at the
\* offset it was placed at, behind the removed entry.
C9_Witness ==
    /\ call.op = "RemovePicoById" /\ call.ret /\ call.id = 0
    /\ manager.entryCount >= 1
    /\ manager.entries[0].code # NULL
    /\ manager.entries[0].code.off > 0

\* The catalog of m with no entry placed, and a heap that holds only the
\* block of m.
Unplaced(m) ==
    [m EXCEPT !.entries =
        [i \in Slots |-> [m.entries[i] EXCEPT !.code = NULL, !.data = NULL,
                                              !.entryPoint = NULL]]]

OnlyBlock(m) == [q \in Regions |-> IF q = m.baseAddress.blk THEN "RWX" ELSE "free"]

\* A single LoadPico with boundary ALL and finalPadding 0 on the catalog of m
\* with no entry placed.
OneShot(m) == LoadPicoOp(Unplaced(m), OnlyBlock(m), LOAD_ALL, 0, MaxEntries)

\* Every placed entry of m is where the single LoadPico would place it.
AsOneShot(m) ==
    \A i \in Placed(m) : m.entries[i].code = OneShot(m).manager.entries[i].code

\* C10: while the placements are those of a single LoadPico(ALL) on the
\* catalog (none yet, or those of earlier phases with no removal since),
\* registering an entry keeps them so, and a successful LoadPico(k) places
\* the entries at positions 0..k where the single LoadPico(ALL) on the
\* catalog places them and leaves the entries after k as they are; when it
\* covers the whole catalog, usedSize is that of the single LoadPico(ALL).
C10_PhasedAsOneShot ==
    AsOneShot(manager) =>
        /\ \A a \in AddArgs : AsOneShot(AddPicoOp(manager, a[1], a[2]).manager)
        /\ \A upToEntryId \in LoadBounds, finalPadding \in FinalPaddings,
              grants \in Grants :
              LET r   == LoadPicoOp(manager, heap, upToEntryId, finalPadding, grants)
                  one == OneShot(r.manager)
              IN  r.ret =>
                    /\ \A i \in Occupied(manager) :
                          IF i < LoadUpTo(manager, upToEntryId)
                          THEN /\ r.manager.entries[i].code # NULL
                               /\ r.manager.entries[i].code = one.manager.entries[i].code
                          ELSE r.manager.entries[i] = manager.entries[i]
                    /\ LoadUpTo(manager, upToEntryId) >= manager.entryCount =>
                          /\ one.ret
                          /\ r.manager.usedSize = one.manager.usedSize

\* LoadPico with boundary ALL placed the rest of a catalog of which an
\* earlier call had placed a part; all placements and usedSize are those of
\* the single LoadPico(ALL).
C10_Witness ==
    /\ call.op = "LoadPico" /\ call.ret /\ call.id = LOAD_ALL
    /\ call.placed >= 1
    /\ call.placed < manager.entryCount
    /\ Placed(manager) = Occupied(manager)
    /\ AsOneShot(manager)
    /\ manager.usedSize = OneShot(manager).manager.usedSize

\* The results of the removals, by id and by name, that remove the entry at
\* position k.
RemovalsOf(k) ==
    {RemovePicoByIdOp(manager, heap, k)}
      \cup {RemovePicoByNameOp(manager, heap, name) :
               name \in {n \in RemoveNames :
                           Named(manager, n) # {} /\ Lowest(Named(manager, n)) = k}}

\* C11: a removal leaves baseAddress, blockSize and usedSize as they are;
\* every other entry keeps its code, data, entryPoint, name, vault and
\* sizes and its data section stays allocated; the region that holds the
\* code of an entry, the removed one included, is not released.
C11_RemovalTouchesOnlyCatalog ==
    \A k \in Occupied(manager) :
        \A r \in RemovalsOf(k) :
            /\ r.ret
            /\ r.manager.baseAddress = manager.baseAddress
            /\ r.manager.blockSize = manager.blockSize
            /\ r.manager.usedSize = manager.usedSize
            /\ \A i \in Occupied(manager) \ {k} :
                  LET old == manager.entries[i]
                      new == r.manager.entries[After(i, k)]
                  IN  /\ new.code = old.code /\ new.data = old.data
                      /\ new.entryPoint = old.entryPoint
                      /\ new.name = old.name /\ new.vault = old.vault
                      /\ new.codeSize = old.codeSize /\ new.dataSize = old.dataSize
                      /\ old.data # NULL => r.heap[old.data.blk] = "RW"
            /\ \A i \in Placed(manager) :
                  r.heap[manager.entries[i].code.blk] = heap[manager.entries[i].code.blk]
            /\ manager.baseAddress # NULL =>
                  r.heap[manager.baseAddress.blk] = heap[manager.baseAddress.blk]

\* A removal by name took a loaded entry out from before another loaded
\* entry, which is now at position 0 with its code behind the gap and its
\* data section; the block and usedSize are as the load left them.
C11_Witness ==
    /\ call.op = "RemovePicoByName" /\ call.ret
    /\ manager.entryCount >= 1
    /\ manager.entries[0].code # NULL /\ manager.entries[0].code.off > 0
    /\ manager.entries[0].data # NULL
    /\ manager.baseAddress # NULL /\ heap[manager.baseAddress.blk] = "RWX"
    /\ manager.usedSize > manager.entries[0].code.off

\* The entry as a registration leaves it: no code, data or entryPoint.
Fresh(entry) == [entry EXCEPT !.code = NULL, !.data = NULL, !.entryPoint = NULL]

\* h1 is h with one free region more handed out as an executable block.
OneBlockMore(h, h1, block) ==
    /\ block # NULL /\ block.off = 0 /\ block.blk \in Regions
    /\ h[block.blk] = "free" /\ h1[block.blk] = "RWX"
    /\ \A q \in Regions \ {block.blk} : h1[q] = h[q]

\* C12: a successful DuplicateManager on a manager with n >= 1 entries gives
\* a new manager with the same n names, vaults and sizes in the same order,
\* ids 0..n-1, no entry placed, the same interPicoPadding, a block allocated
\* by this call and usedSize 0; no data section is allocated; LoadPico with
\* boundary ALL and finalPadding 0 on the new manager then succeeds, when
\* the system has the data sections to give, and places the entries from
\* offset 0.  (The source manager is not an output of the function.)
C12_DuplicateIsFreshCopy ==
    \A entryCapacity \in Capacities, grant \in BOOLEAN :
        LET d  == DuplicateManagerOp(manager, heap, entryCapacity, grant)
            nm == d.newManager
            l  == LoadPicoOp(nm, d.heap, LOAD_ALL, 0, MaxEntries)
        IN  (d.ret /\ manager.entryCount >= 1) =>
              /\ nm.entryCount = manager.entryCount
              /\ \A i \in Occupied(manager) :
                    /\ nm.entries[i] = Fresh(manager.entries[i])
                    /\ nm.entries[i].id = i
              /\ nm.interPicoPadding = manager.interPicoPadding
              /\ nm.usedSize = 0
              /\ nm.blockSize > 0
              /\ nm.baseAddress # manager.baseAddress
              /\ OneBlockMore(heap, d.heap, nm.baseAddress)
              /\ Cardinality(FreeRegions(d.heap)) >= nm.entryCount =>
                    /\ l.ret
                    /\ \A i \in Occupied(nm) :
                          /\ l.manager.entries[i].code = InBlock(nm, SumBefore(nm, i))
                          /\ l.manager.entries[i].data # NULL
                    /\ l.manager.entries[0].code = nm.baseAddress

\* DuplicateManager succeeded on a manager with two entries, none placed;
\* the new manager has the two entries and the block handed back, and
\* LoadPico on it succeeds.
C12_Witness ==
    /\ call.op = "DuplicateManager" /\ call.ret
    /\ manager.entryCount = 2 /\ Placed(manager) = {}
    /\ newManager.entryCount = 2
    /\ picoBlock = newManager.baseAddress /\ picoBlock # NULL
    /\ LoadPicoOp(newManager, heap, LOAD_ALL, 0, MaxEntries).ret

\* C13: after a DuplicateManager that failed because the new capacity is
\* smaller than the number of entries of the source, the new manager has
\* entryCount 0 and no block.
C13_FailedDuplicateRolledBack ==
    (/\ call.op = "DuplicateManager" /\ ~call.ret
     /\ newManager.entryCapacity < manager.entryCount) =>
        /\ newManager.entryCount = 0
        /\ newManager.baseAddress = NULL

\* The regions that hold data sections.
Writable(h) == {q \in Regions : h[q] = "RW"}

\* C14: DestroyManager returns success, releases the block it is given and
\* no other region, so the writable regions are the same before and after,
\* sets baseAddress to NULL and blockSize, usedSize and entryCount to 0, and
\* leaves the entries array, the data pointers in it included, as it is.
C14_DestroyReleasesOnlyBlock ==
    \A block \in {NULL, manager.baseAddress} :
        LET r == DestroyManagerOp(manager, heap, block)
        IN  /\ r.ret
            /\ r.manager.baseAddress = NULL
            /\ r.manager.blockSize = 0
            /\ r.manager.usedSize = 0
            /\ r.manager.entryCount = 0
            /\ r.manager.entries = manager.entries
            /\ Writable(r.heap) = Writable(heap)
            /\ \A q \in Regions :
                  r.heap[q] = IF block # NULL /\ q = block.blk THEN "free" ELSE heap[q]

\* DestroyManager released the block of a manager with a loaded entry: the
\* catalog is empty, the entry's data section is still allocated and no
\* executable region is left.
C14_Witness ==
    /\ call.op = "DestroyManager"
    /\ manager.entryCount = 0 /\ manager.baseAddress = NULL
    /\ manager.entries[0].data # NULL
    /\ heap[manager.entries[0].data.blk] = "RW"
    /\ \A q \in Regions : heap[q] # "RWX"

\* The sum of codeSize over the positions before i.
RECURSIVE CodeSum(_, _)
CodeSum(m, i) == IF i = 0 THEN 0 ELSE CodeSum(m, i - 1) + m.entries[i - 1].codeSize

\* C15: TotalCodeSize of a catalog of n entries is the sum of their codeSize
\* plus interPicoPadding * (n - 1), 0 for the empty catalog, placed or not;
\* a successful PicoManagerAlloc(finalPadding) sets blockSize to
\* TotalCodeSize + interPicoPadding * (n - 1) + finalPadding (to
\* finalPadding for the empty catalog) and usedSize to 0.
C15_TotalCodeSizeAndBlockSize ==
    LET n   == manager.entryCount
        pad == manager.interPicoPadding
    IN  /\ TotalCodeSize(manager)
              = IF n = 0 THEN 0 ELSE CodeSum(manager, n) + pad * (n - 1)
        /\ TotalCodeSize(Unplaced(manager)) = TotalCodeSize(manager)
        /\ \A finalPadding \in FinalPaddings, grant \in BOOLEAN :
              LET r == PicoManagerAllocOp(manager, heap, finalPadding, grant)
              IN  r.ret =>
                    /\ r.manager.blockSize
                          = IF n = 0 THEN finalPadding
                            ELSE TotalCodeSize(manager) + pad * (n - 1) + finalPadding
                    /\ r.manager.usedSize = 0
                    /\ r.manager.baseAddress # NULL

\* PicoManagerAlloc succeeded on a catalog of two with padding between them
\* and an entry placed by an earlier load: usedSize is 0 again and
\* blockSize counts the padding between the two entries twice.
C15_Witness ==
    /\ call.op = "PicoManagerAlloc" /\ call.ret
    /\ manager.entryCount = 2 /\ manager.interPicoPadding > 0
    /\ Placed(manager) # {}
    /\ manager.usedSize = 0
    /\ manager.blockSize = CodeSum(manager, 2) + 2 * manager.interPicoPadding
                              + call.finalPadding

\* C16: AddPico fails and leaves the manager as it is when the catalog is
\* full or the name or the vault is NULL; otherwise it succeeds, writes one
\* entry with no code, data or entryPoint at position entryCount, adds one
\* to entryCount and changes no other entry and no other field.
C16_AddPicoContract ==
    \A a \in AddArgs :
        LET r == AddPicoOp(manager, a[1], a[2])
            n == manager.entryCount
        IN  IF n = manager.entryCapacity \/ a[1] = NullName \/ a[2] = NullVault
            THEN ~r.ret /\ r.manager = manager
            ELSE /\ r.ret
                 /\ r.manager.entryCount = n + 1
                 /\ r.manager.entries[n].id = n
                 /\ r.manager.entries[n].name = a[1]
                 /\ r.manager.entries[n].vault = a[2]
                 /\ r.manager.entries[n].code = NULL
                 /\ r.manager.entries[n].data = NULL
                 /\ r.manager.entries[n].entryPoint = NULL
                 /\ \A i \in Slots \ {n} : r.manager.entries[i] = manager.entries[i]
                 /\ [r.manager EXCEPT !.entries = manager.entries, !.entryCount = n]
                       = manager

\* AddPico appended an unplaced entry behind a loaded one; the block and
\* usedSize are as the load left them.
C16_Witness ==
    /\ call.op = "AddPico" /\ call.ret
    /\ manager.entryCount >= 2
    /\ manager.entries[0].code # NULL /\ manager.entries[0].data # NULL
    /\ manager.entries[manager.entryCount - 1].code = NULL
    /\ manager.entries[manager.entryCount - 1].name = call.name
    /\ manager.baseAddress # NULL /\ manager.usedSize > 0

\* C17: while the manager has no block (baseAddress NULL or blockSize 0:
\* before PicoManagerAlloc, after a PicoManagerAlloc that failed, after
\* DestroyManager), LoadPico returns failure and changes neither the
\* manager, so no entry is placed and usedSize stays, nor the regions.
C17_LoadWithoutBlockFails ==
    (manager.baseAddress = NULL \/ manager.blockSize = 0) =>
        \A upToEntryId \in LoadBounds, finalPadding \in FinalPaddings,
           grants \in Grants :
            LET r == LoadPicoOp(manager, heap, upToEntryId, finalPadding, grants)
            IN  ~r.ret /\ r.manager = manager /\ r.heap = heap

\* LoadPico failed on a manager that DestroyManager had cleared (the slot
\* behind the catalog still holds an entry of before) and that has one
\* entry registered since, which is not placed.
C17_Witness ==
    /\ call.op = "LoadPico" /\ ~call.ret /\ call.placed = 0
    /\ manager.baseAddress = NULL /\ manager.blockSize = 0
    /\ manager.entryCount = 1
    /\ manager.entries[1].vault # NullVault
    /\ manager.entries[0].code = NULL /\ manager.entries[0].data = NULL

\* The end of the code of an entry, as an offset in its block.
CodeEnd(entry) == entry.code.off + entry.codeSize

\* No load has left an entry with its code set and no data section.
AllLoadsCompleted(m) == \A i \in Placed(m) : m.entries[i].data # NULL

\* C18: LoadPico with boundary ALL, when it succeeds, leaves usedSize at or
\* above the end of the code of every placed entry of the catalog (stated
\* for catalogs in which no earlier load was cut short by a refused data
\* section).
C18_UsedSizeIsHighWaterMark ==
    AllLoadsCompleted(manager) =>
        \A finalPadding \in FinalPaddings, grants \in Grants :
            LET r == LoadPicoOp(manager, heap, LOAD_ALL, finalPadding, grants)
            IN  r.ret =>
                  \A i \in Placed(r.manager) :
                      r.manager.usedSize >= CodeEnd(r.manager.entries[i])

\* The regions that are executable blocks.
Executable(h) == {q \in Regions : h[q] = "RWX"}

\* C19: every entry whose code is set has that code inside the block that
\* baseAddress and blockSize identify, and at most one executable block is
\* allocated and not released.
C19_OneBlockHoldsAllCode ==
    /\ \A i \in Placed(manager) :
          /\ manager.entries[i].code.blk = manager.baseAddress.blk
          /\ CodeEnd(manager.entries[i]) <= manager.blockSize
    /\ Cardinality(Executable(heap)) <= 1

\* The code of the entries at positions i and j of m shares a byte.
Overlap(m, i, j) ==
    /\ m.entries[i].code.blk = m.entries[j].code.blk
    /\ m.entries[i].code.off < CodeEnd(m.entries[j])
    /\ m.entries[j].code.off < CodeEnd(m.entries[i])

Disjoint(m) == \A i, j \in Placed(m) : i # j => ~Overlap(m, i, j)

\* C20: the code of any two placed entries of the catalog is disjoint, in
\* every reachable state and after an AddPico and a LoadPico with boundary
\* ALL made from it (the latter stated for catalogs in which no earlier
\* load was cut short by a refused data section).
C20_CodeRangesDisjoint ==
    /\ Disjoint(manager)
    /\ AllLoadsCompleted(manager) =>
          \A a \in AddArgs, finalPadding \in FinalPaddings, grants \in Grants :
              LET added == AddPicoOp(manager, a[1], a[2]).manager
                  r     == LoadPicoOp(added, heap, LOAD_ALL, finalPadding, grants)
              IN  Disjoint(r.manager)

\* When the entry at position i of m has its code set, so has every entry
\* before it.
IsPrefix(m) == \A i \in Placed(m) : \A j \in 0..i : j \in Placed(m)

\* C21: the entries whose code is set form a prefix of the catalog, in
\* every reachable state and after every AddPico, LoadPico (successful or
\* failed) and removal made from it.
C21_PlacedIsPrefix ==
    /\ IsPrefix(manager)
    /\ \A a \in AddArgs : IsPrefix(AddPicoOp(manager, a[1], a[2]).manager)
    /\ \A id \in RemoveIds : IsPrefix(RemovePicoByIdOp(manager, heap, id).manager)
    /\ \A name \in RemoveNames :
          IsPrefix(RemovePicoByNameOp(manager, heap, name).manager)
    /\ \A upToEntryId \in LoadBounds, finalPadding \in FinalPaddings,
          grants \in Grants :
          IsPrefix(LoadPicoOp(manager, heap, upToEntryId, finalPadding, grants).manager)

\* LoadPico with boundary 1 placed the first two entries of a catalog of
\* three and left the third unplaced.
C21_Witness ==
    /\ call.op = "LoadPico" /\ call.ret /\ call.id = 1
    /\ manager.entryCount = 3
    /\ Placed(manager) = {0, 1}

\* The data sections the catalog of m refers to.
DataOf(m) == {m.entries[i].data : i \in Occupied(m)} \ {NULL}

\* Every data section the catalog of m refers to is an allocated writable
\* region of h, and no two entries refer to the same one.
OwnsData(m, h) ==
    /\ \A d \in DataOf(m) : d.blk \in Regions /\ h[d.blk] = "RW"
    /\ \A i, j \in Occupied(m) :
          (i # j /\ m.entries[i].data # NULL) =>
              m.entries[i].data # m.entries[j].data

\* The two catalogs own their data sections and share none.
Exclusive(m, nm, h) ==
    /\ OwnsData(m, h) /\ OwnsData(nm, h)
    /\ DataOf(m) \cap DataOf(nm) = {}

\* C22: the data sections that the entries of the manager and of the
\* duplicated manager refer to are allocated, each is referred to by one
\* entry only, and this stays so when the duplicated manager is loaded;
\* every removal releases a section that is allocated at that moment, and
\* no entry refers to it afterwards.
C22_DataSectionsOwned ==
    /\ Exclusive(manager, newManager, heap)
    /\ \A finalPadding \in FinalPaddings, grants \in Grants :
          LET l == LoadPicoOp(newManager, heap, LOAD_ALL, finalPadding, grants)
          IN  Exclusive(manager, l.manager, l.heap)
    /\ \A k \in Occupied(manager) :
          \A r \in RemovalsOf(k) :
              LET d == manager.entries[k].data
              IN  /\ Exclusive(r.manager, newManager, r.heap)
                  /\ d # NULL =>
                        /\ heap[d.blk] = "RW" /\ r.heap[d.blk] = "free"
                        /\ d \notin DataOf(r.manager)

\* DuplicateManager succeeded on a manager with a loaded entry; the entry
\* keeps its data section, the copy has none, and a load of the copy gives
\* it a section of its own.
C22_Witness ==
    /\ call.op = "DuplicateManager" /\ call.ret
    /\ manager.entryCount >= 1 /\ manager.entries[0].data # NULL
    /\ newManager.entryCount = manager.entryCount
    /\ newManager.entries[0].data = NULL
    /\ LET l == LoadPicoOp(newManager, heap, LOAD_ALL, 0, MaxEntries)
       IN  /\ l.ret
           /\ l.manager.entries[0].data # NULL
           /\ l.manager.entries[0].data # manager.entries[0].data

\* The manager has a block and no other executable block was ever handed
\* out: PicoManagerAlloc succeeded once and nothing released the block.
AllocatedOnce == manager.baseAddress # NULL /\ Executable(heap) = {manager.baseAddress.blk}

\* The code of every placed entry of m, with the padding behind it, ends
\* inside the block of m.
WithinBlock(m) ==
    \A i \in Placed(m) :
        /\ m.entries[i].code.blk = m.baseAddress.blk
        /\ m.entries[i].code.off + m.entries[i].codeSize + m.interPicoPadding
              <= m.blockSize

\* C23: with one PicoManagerAlloc, every placed entry satisfies
\* (code - baseAddress) + codeSize + interPicoPadding <= blockSize, in every
\* reachable state, after every AddPico, removal and LoadPico made from it,
\* and after an AddPico followed by a LoadPico with boundary ALL.
C23_CodeWithinBlock ==
    AllocatedOnce =>
        /\ WithinBlock(manager)
        /\ \A a \in AddArgs : WithinBlock(AddPicoOp(manager, a[1], a[2]).manager)
        /\ \A id \in RemoveIds : WithinBlock(RemovePicoByIdOp(manager, heap, id).manager)
        /\ \A upToEntryId \in LoadBounds, finalPadding \in FinalPaddings,
              grants \in Grants :
              WithinBlock(LoadPicoOp(manager, heap, upToEntryId, finalPadding,
                                     grants).manager)
        /\ \A a \in AddArgs, finalPadding \in FinalPaddings, grants \in Grants :
              WithinBlock(LoadPicoOp(AddPicoOp(manager, a[1], a[2]).manager, heap,
                                     LOAD_ALL, finalPadding, grants).manager)

\* After one PicoManagerAlloc and a removal, the entry now at position 0 has
\* its code behind the gap and ends, with its padding, exactly at the end of
\* the block.
C23_Witness ==
    /\ AllocatedOnce
    /\ call.op = "RemovePicoById" /\ call.ret
    /\ manager.entryCount >= 1
    /\ manager.entries[0].code # NULL /\ manager.entries[0].code.off > 0
    /\ manager.entries[0].code.off + manager.entries[0].codeSize
          + manager.interPicoPadding = manager.blockSize

====
